---- MODULE Spec2Model ----
(***************************************************************************)
(* Model of the Rune detour pool of open-dynamic                           *)
(* (src/src/utils/runedetour.rs): the registry RUNE_DETOURS of RDetour     *)
(* slots, the ten detour_holder_xx entry points, install_detour_auto,      *)
(* drop_rdetour_at and call_rune_function_on_id, together with the part of *)
(* the process they act on: the patched prologues of native functions.     *)
(***************************************************************************)
EXTENDS Integers, Sequences, FiniteSets, TLC

(***************************************************************************)
(* Program constants and bounds of the model.                              *)
(***************************************************************************)
\* detour_holder_00 .. detour_holder_09 (runedetour.rs:391-400).
NumHolders == 10
\* Initial value of COLLECT_PARAMS_COUNT (runedetour.rs:12).
DefaultCollect == 10

\* Native addresses are 0..MaxAddr; 0 is the null pointer.
MaxAddr == 2
\* Number of hook_function calls in one behaviour of Spec.
MaxInstalls == 2
\* The value of collect_params_count a config.jsonc may carry.
CfgCollect == 3
\* Number of threads that call into the pool at the same time.
NumThreads == 2
\* The most parameters a script hands to fn_call / fn_call_raw.
MaxParams == 11
\* Width of a machine word of the model, in bits.
WordBits == 3
\* call_auto_raw takes up to 10 parameters (fncaller.rs:20).
MaxArity == 10

VARIABLES
    phase,                  \* "boot", "configured", "running": BaseCore::init
    COLLECT_PARAMS_COUNT,   \* the AtomicUsize of runedetour.rs:12
    RUNE_DETOURS,           \* the Vec of RDetour slots (index = position + 1)
    CALL_ONCE,              \* CALL_ONCE of every holder: has the Once run
    native,                 \* prologue of every native function
    crashed,                \* crash!() or a panic has ended the process
    last,                   \* the operation that has just returned, if any
    ninstalls,              \* hook_function calls made so far
    threads,                \* where every thread is inside the pool
    rune_detours_lock,      \* the RwLock around the Vec RUNE_DETOURS
    rdetour_lock,           \* the RwLock around every RDetour of the Vec
    fncall                  \* the FNCaller call that has just returned, if any

\* What the calls made one at a time leave alone.
conc_vars == <<threads, rune_detours_lock, rdetour_lock>>
call_vars == <<fncall>>

vars == <<phase, COLLECT_PARAMS_COUNT, RUNE_DETOURS, CALL_ONCE, native, crashed,
          last, ninstalls, conc_vars, call_vars>>

(***************************************************************************)
(* Values.                                                                 *)
(***************************************************************************)
None == [some |-> FALSE]
Some(v) == [some |-> TRUE, v |-> v]

\* Option::unwrap_or_default on Option<i64>.
unwrap_or_default(o) == IF o.some THEN o.v ELSE 0

RetUnit == [kind |-> "unit"]
RetBool(b) == [kind |-> "bool", b |-> b]
RetWord(w) == [kind |-> "word", w |-> w]

Addrs == 0..MaxAddr
HolderIds == 0..(NumHolders - 1)
\* What a script passes to hook_function: a Rune function and its opt_param.
Hooks == {[fn |-> "cb1", opt |-> None], [fn |-> "cb2", opt |-> Some("param")]}

\* What a script callback answers: Ok(i64) or a Rune error.
CbOk(v) == [ok |-> TRUE, v |-> v]
CbErr == [ok |-> FALSE]
CbResults == {CbOk(5), CbOk(6), CbErr}

\* The words on the native stack at an intercepted call, more than any
\* holder collects.
StackLen == DefaultCollect + CfgCollect
Stacks == {[i \in 1..StackLen |-> i], [i \in 1..StackLen |-> 2 * StackLen - i]}

\* The result of the un-hooked function at address a.
OriginalResult(a) == 40 + a

(***************************************************************************)
(* struct RDetour and its accessors.                                       *)
(***************************************************************************)
\* RDetour { detour_id, ..Default::default() }.
NewRDetour(detour_id) ==
    [detour_id |-> detour_id, from_ptr |-> None, detour |-> None,
     rune_function |-> None, opt_param |-> None]

get_from_address(rd) == rd.from_ptr
get_raw_detour(rd) == rd.detour
get_rune_function(rd) == rd.rune_function
get_detour_id(rd) == rd.detour_id

is_detour_acquired(rd) ==
    get_from_address(rd).some \/ get_raw_detour(rd).some

\* The two slot states the specification names.
Installed(rd) == rd.from_ptr.some /\ rd.detour.some
Free(rd) == ~rd.from_ptr.some /\ ~rd.detour.some

Min(S) == CHOOSE x \in S : \A y \in S : x <= y

\* Iterator::find over the registry: the first of the positions that satisfy
\* the predicate, 0 when there is none.
FindFirst(hits) == IF hits = {} THEN 0 ELSE Min(hits)

(***************************************************************************)
(* The hooking primitive (retour::RawDetour) as the code uses it.  A       *)
(* prologue is None (the original code) or Some(h) (a jump to holder h).   *)
(* A RawDetour saves the prologue it found when it was created; enable     *)
(* writes the jump, disable writes the saved prologue back.                *)
(***************************************************************************)
\* The call-through pointer of a detour from `from` to holder `to`: not null.
Trampoline(from, to) == 100 * (to + 1) + from

\* RawDetour::new(from, to): a disabled detour.
RawDetourNew(from, to, nat) ==
    [from |-> from, to |-> to, saved |-> nat[from], enabled |-> FALSE,
     trampoline |-> Trampoline(from, to)]

\* What the primitive may answer to install at from_ptr: the null pointer is
\* never executable, any other address may be accepted or refused.
PrimOutcomes(from_ptr) ==
    IF from_ptr = 0 THEN {"create_err"} ELSE {"ok", "create_err", "enable_err"}

\* RawDetour::enable: a no-op on an enabled detour, else the patch is written
\* unless the primitive refuses.
DetourEnable(hook, nat, ok) ==
    IF hook.enabled THEN [ok |-> TRUE, hook |-> hook, native |-> nat]
    ELSE IF ok
         THEN [ok |-> TRUE, hook |-> [hook EXCEPT !.enabled = TRUE],
               native |-> [nat EXCEPT ![hook.from] = Some(hook.to)]]
         ELSE [ok |-> FALSE, hook |-> hook, native |-> nat]

\* RawDetour::disable: a no-op on a disabled detour, else the saved prologue
\* is written back unless the primitive refuses.
DetourDisable(hook, nat, ok) ==
    IF ~hook.enabled THEN [ok |-> TRUE, hook |-> hook, native |-> nat]
    ELSE IF ok
         THEN [ok |-> TRUE, hook |-> [hook EXCEPT !.enabled = FALSE],
               native |-> [nat EXCEPT ![hook.from] = hook.saved]]
         ELSE [ok |-> FALSE, hook |-> hook, native |-> nat]

\* Dropping a RawDetour disables it when the primitive still can.
DetourDrop(hook, nat, ok) == DetourDisable(hook, nat, ok).native

(***************************************************************************)
(* Registration: generate_detour_id!, register_new_detour,                 *)
(* register_all_detours.                                                   *)
(***************************************************************************)
\* An insert that puts the element in front.
VecInsertFront(vec, index, element) == <<element>> \o vec

\* Vec::insert(index, element): panics when index > len.
VecInsert(vec, index, element) ==
    SubSeq(vec, 1, index) \o <<element>> \o SubSeq(vec, index + 1, Len(vec))

\* register_new_detour(detour_id), the registry not being locked.
register_new_detour(dets, detour_id) ==
    IF \E i \in DOMAIN dets : get_detour_id(dets[i]) = detour_id
    THEN [dets |-> dets, crash |-> TRUE]
    ELSE IF detour_id > Len(dets)
         THEN [dets |-> dets, crash |-> TRUE]
         ELSE [dets |-> VecInsert(dets, detour_id, NewRDetour(detour_id)),
               crash |-> FALSE]

\* A holder that collects the ten words of the default, whatever the count.
CollectArgsDefault(stack, count) == SubSeq(stack, 1, DefaultCollect)

\* The words a holder collects from its variadic arguments.
CollectArgs(stack, count) == SubSeq(stack, 1, count)

\* A lookup that ignores the id and takes the first slot with a callback.
FindByIdAnyCallback(dets, detour_id) ==
    FindFirst({i \in DOMAIN dets : get_rune_function(dets[i]).some})

\* The slot call_rune_function_on_id looks for: the first one of that id.
FindById(dets, detour_id) ==
    FindFirst({i \in DOMAIN dets : get_detour_id(dets[i]) = detour_id})

\* A call that hands the hooked address to the callback as `original`.
CallbackCallTarget(rdetour, args) ==
    [fn |-> get_rune_function(rdetour).v,
     original |-> unwrap_or_default(get_from_address(rdetour)),
     args |-> args,
     opt |-> rdetour.opt_param]

\* The call of the Rune function: (original, args, opt_param).
CallbackCall(rdetour, args) ==
    [fn |-> get_rune_function(rdetour).v,
     original |-> get_raw_detour(rdetour).v.trampoline,
     args |-> args,
     opt |-> rdetour.opt_param]

\* A callback error that reaches the native caller as a fault value.
CallbackResultPropagates(cbres) == IF cbres.ok THEN cbres.v ELSE 0 - 1

\* What call_rune_function_on_id returns after the call: the Ok value, or 0
\* once the error is logged.
CallbackResult(cbres) == IF cbres.ok THEN cbres.v ELSE 0

\* call_rune_function_on_id(detour_id, args), no lock being held by another
\* thread; cbres is what the script callback answers when it is called.
call_rune_function_on_id(dets, detour_id, args, cbres) ==
    LET at == FindById(dets, detour_id)
        miss == [ret |-> 0, calls |-> <<>>]
    IN IF at = 0 THEN miss
       ELSE LET rdetour == dets[at]
            IN IF ~get_rune_function(rdetour).some THEN miss
               ELSE IF ~get_raw_detour(rdetour).some THEN miss
               ELSE LET call == CallbackCall(rdetour, args)
                    IN [ret |-> CallbackResult(cbres), calls |-> <<call>>]

\* detour_holder_<id>(args...): generate_detour_id!.
detour_holder(dets, once, id, stack, count, cbres) ==
    LET reg == IF once[id] THEN [dets |-> dets, crash |-> FALSE]
               ELSE register_new_detour(dets, id)
        collected_args == CollectArgs(stack, count)
        res == call_rune_function_on_id(reg.dets, id, collected_args, cbres)
    IN IF reg.crash
       THEN [dets |-> reg.dets, once |-> once, crash |-> TRUE, args |-> <<>>,
             ret |-> 0, calls |-> <<>>]
       ELSE [dets |-> reg.dets, once |-> [once EXCEPT ![id] = TRUE],
             crash |-> FALSE, args |-> collected_args, ret |-> res.ret,
             calls |-> res.calls]

\* register_all_detours: detour_holder_00() .. detour_holder_09() in order.
RECURSIVE RegisterFrom(_, _, _, _, _, _)
RegisterFrom(dets, once, id, stack, count, cbres) ==
    IF id >= NumHolders THEN [dets |-> dets, once |-> once, crash |-> FALSE]
    ELSE LET h == detour_holder(dets, once, id, stack, count, cbres)
         IN IF h.crash THEN [dets |-> h.dets, once |-> h.once, crash |-> TRUE]
            ELSE RegisterFrom(h.dets, h.once, id + 1, stack, count, cbres)

register_all_detours(dets, once, stack, count, cbres) ==
    RegisterFrom(dets, once, 0, stack, count, cbres)

(***************************************************************************)
(* install: install_detour_auto, find_free_detour, install_detour,         *)
(* determine_detour_holder, create_hook.                                   *)
(***************************************************************************)
\* A scan that takes the first slot that is acquired.
find_acquired_detour(dets) ==
    FindFirst({i \in DOMAIN dets : is_detour_acquired(dets[i])})

\* find_free_detour: the position of the first slot that is not acquired.
find_free_detour(dets) ==
    FindFirst({i \in DOMAIN dets : ~is_detour_acquired(dets[i])})

\* determine_detour_holder: the holder of the slot's id, None where the code
\* reaches crash!.
determine_detour_holder(rd) ==
    IF get_detour_id(rd) \in HolderIds THEN Some(get_detour_id(rd)) ELSE None

\* create_hook(from, to): RawDetour::new(..).dynamic_unwrap(), then
\* hook.enable().dynamic_unwrap().
create_hook(from, to, nat, prim) ==
    IF prim = "create_err"
    THEN [crash |-> TRUE, hook |-> RawDetourNew(from, to, nat), native |-> nat]
    ELSE LET en == DetourEnable(RawDetourNew(from, to, nat), nat,
                                prim # "enable_err")
         IN [crash |-> ~en.ok, hook |-> en.hook, native |-> en.native]

\* The fields install_detour records before it creates the hook.
RecordInstall(rd, from_ptr, rune_function, opt_param) ==
    [rd EXCEPT !.rune_function = Some(rune_function),
               !.from_ptr = Some(from_ptr),
               !.opt_param = opt_param]

\* install_detour(&mut self, from_ptr, rune_function, opt_param).
install_detour(rd, from_ptr, rune_function, opt_param, nat, prim, dropOk) ==
    IF is_detour_acquired(rd)
    THEN [rd |-> rd, native |-> nat, crash |-> FALSE]
    ELSE LET to_ptr == determine_detour_holder(rd)
             rec == RecordInstall(rd, from_ptr, rune_function, opt_param)
         IN IF ~to_ptr.some
            THEN [rd |-> rd, native |-> nat, crash |-> TRUE]
            ELSE LET ch == create_hook(from_ptr, to_ptr.v, nat, prim)
                 IN IF ch.crash
                    THEN [rd |-> rec, native |-> ch.native, crash |-> TRUE]
                    ELSE LET en == DetourEnable(ch.hook, ch.native, TRUE)
                         IN IF ~en.ok
                            THEN [rd |-> rec,
                                  native |-> DetourDrop(en.hook, en.native, dropOk),
                                  crash |-> FALSE]
                            ELSE [rd |-> [rec EXCEPT !.detour = Some(en.hook)],
                                  native |-> en.native, crash |-> FALSE]

\* install_detour_auto(from_ptr, rune_function, opt_param); sync tells whether
\* the Rune function converts into a SyncFunction.
install_detour_auto(dets, nat, from_ptr, rune_function, sync, opt_param, prim, dropOk) ==
    LET at == find_free_detour(dets)
        same == [dets |-> dets, native |-> nat, crash |-> FALSE, slot |-> 0]
    IN IF ~sync THEN same
       ELSE IF at = 0 THEN same
       ELSE LET r == install_detour(dets[at], from_ptr, rune_function,
                                    opt_param, nat, prim, dropOk)
            IN [dets |-> [dets EXCEPT ![at] = r.rd], native |-> r.native,
                crash |-> r.crash, slot |-> at]

(***************************************************************************)
(* remove: drop_rdetour_at.                                                *)
(***************************************************************************)
\* A lookup that ignores the address and takes the first acquired slot.
FindByAddressAnyAcquired(dets, address) ==
    FindFirst({i \in DOMAIN dets : is_detour_acquired(dets[i])})

\* The slot drop_rdetour_at looks for: the first one whose from_ptr, or 0 for
\* an absent one, equals address.
FindByAddress(dets, address) ==
    FindFirst({i \in DOMAIN dets :
                  unwrap_or_default(get_from_address(dets[i])) = address})

\* A release that forgets to clear from_ptr.
ReleaseSlotKeepsAddress(rd) ==
    [rd EXCEPT !.detour = None, !.rune_function = None]

\* The slot as drop_rdetour_at leaves it after a successful disable.
ReleaseSlot(rd) ==
    [rd EXCEPT !.detour = None, !.from_ptr = None, !.rune_function = None]

\* A slot without a RawDetour that is released all the same.
DropWithoutDetourReleases(dets, nat, at) ==
    [dets |-> [dets EXCEPT ![at] = ReleaseSlot(dets[at])], native |-> nat,
     ret |-> FALSE, slot |-> at]

\* drop_rdetour_at when rdetour.detour.take() is None: nothing is changed.
DropWithoutDetour(dets, nat, at) ==
    [dets |-> dets, native |-> nat, ret |-> FALSE, slot |-> at]

\* drop_rdetour_at once it holds the write lock of the slot at position at.
drop_found(dets, nat, at, disableOk, dropOk) ==
    LET rdetour == dets[at]
    IN IF ~rdetour.detour.some
       THEN DropWithoutDetour(dets, nat, at)
       ELSE LET detour == rdetour.detour.v
                taken == [rdetour EXCEPT !.detour = None]
                dis == DetourDisable(detour, nat, disableOk)
            IN IF detour.enabled /\ ~dis.ok
               THEN [dets |-> [dets EXCEPT ![at] = taken],
                     native |-> DetourDrop(detour, nat, dropOk),
                     ret |-> FALSE, slot |-> at]
               ELSE [dets |-> [dets EXCEPT ![at] = ReleaseSlot(rdetour)],
                     native |-> dis.native, ret |-> TRUE, slot |-> at]

\* drop_rdetour_at(address), no lock being held by another thread.
drop_rdetour_at(dets, nat, address, disableOk, dropOk) ==
    LET at == FindByAddress(dets, address)
    IN IF at = 0
       THEN [dets |-> dets, native |-> nat, ret |-> FALSE, slot |-> 0]
       ELSE drop_found(dets, nat, at, disableOk, dropOk)

(***************************************************************************)
(* The state machine.  One action is one whole call of an entry point, run *)
(* with no other thread inside the pool; Return hands its result to the    *)
(* caller, after which the next call can be made.                          *)
(***************************************************************************)
\* Addresses of SpecFill: one more than there are holders.
FillAddrs == 1..(NumHolders + 1)
NativeAddrs == Addrs \cup FillAddrs

\* The threads of the process that call into the pool.
Threads == 1..NumThreads

\* A thread outside the pool.  outer holds the call whose script callback
\* has made the call the thread is in, cbret what that callback got back from
\* the call it made.
Idle ==
    [op |-> "idle", pc |-> "idle", a |-> 0, id |-> 0, i |-> 0, at |-> 0,
     ret |-> RetUnit, outer |-> <<>>, cbret |-> RetUnit]

\* An RwLock: its writer (0 for none) and the threads that hold it shared.
Unlocked == [w |-> 0, r |-> {}]

\* No FNCaller call has been made.
NoCall ==
    [op |-> "none", fn_ptr |-> 0, params |-> <<>>, ret |-> 0, invoked |-> <<>>,
     marshaled |-> 0]

NoLast ==
    [op |-> "none", addr |-> 0, fn |-> "", opt |-> None, sync |-> TRUE,
     id |-> 0, args |-> <<>>, slot |-> 0, prim |-> "ok", disableOk |-> TRUE,
     cbres |-> CbErr, ret |-> RetUnit, calls |-> <<>>]

Init ==
    /\ phase = "boot"
    /\ COLLECT_PARAMS_COUNT = DefaultCollect
    /\ RUNE_DETOURS = <<>>
    /\ CALL_ONCE = [id \in HolderIds |-> FALSE]
    /\ native = [a \in NativeAddrs |-> None]
    /\ crashed = FALSE
    /\ last = NoLast
    /\ ninstalls = 0
    /\ threads = [t \in Threads |-> Idle]
    /\ rune_detours_lock = Unlocked
    /\ rdetour_lock = [i \in 1..NumHolders |-> Unlocked]
    /\ fncall = NoCall

\* A configuration that is loaded again while the process runs.
LoadConfigLate(cfg) ==
    /\ phase \in {"boot", "running"} /\ last.op = "none"
    /\ phase' = IF phase = "boot" THEN "configured" ELSE phase
    /\ COLLECT_PARAMS_COUNT' = IF cfg.some THEN cfg.v ELSE COLLECT_PARAMS_COUNT
    /\ UNCHANGED <<conc_vars, call_vars>>
    /\ UNCHANGED <<RUNE_DETOURS, CALL_ONCE, native, crashed, last, ninstalls>>

\* Config::default(): collect_params_count of config.jsonc, when present, is
\* stored into COLLECT_PARAMS_COUNT.
LoadConfig(cfg) ==
    /\ phase = "boot"
    /\ phase' = "configured"
    /\ COLLECT_PARAMS_COUNT' = IF cfg.some THEN cfg.v ELSE COLLECT_PARAMS_COUNT
    /\ UNCHANGED <<conc_vars, call_vars>>
    /\ UNCHANGED <<RUNE_DETOURS, CALL_ONCE, native, crashed, last, ninstalls>>

\* BaseCore::init(): RDetour::register_all_detours().
RegisterAll(stack, cbres) ==
    /\ phase = "configured"
    /\ LET r == register_all_detours(RUNE_DETOURS, CALL_ONCE, stack,
                                     COLLECT_PARAMS_COUNT, cbres)
       IN /\ RUNE_DETOURS' = r.dets
          /\ CALL_ONCE' = r.once
          /\ crashed' = r.crash
    /\ phase' = "running"
    /\ UNCHANGED <<conc_vars, call_vars>>
    /\ UNCHANGED <<COLLECT_PARAMS_COUNT, native, last, ninstalls>>

\* The process runs and the previous call has returned.
Running == phase = "running" /\ ~crashed /\ last.op = "none"

\* hook_function(from_ptr, rune_function, opt_param) of a script.
InstallOp(bound, from_ptr, rune_function, sync, opt_param, prim, dropOk) ==
    /\ Running
    /\ ninstalls < bound
    /\ LET r == install_detour_auto(RUNE_DETOURS, native, from_ptr,
                                    rune_function, sync, opt_param, prim, dropOk)
       IN /\ RUNE_DETOURS' = r.dets
          /\ native' = r.native
          /\ crashed' = r.crash
          /\ last' = [NoLast EXCEPT !.op = "install", !.addr = from_ptr,
                                    !.fn = rune_function, !.opt = opt_param,
                                    !.sync = sync, !.slot = r.slot,
                                    !.prim = prim]
    /\ ninstalls' = ninstalls + 1
    /\ UNCHANGED <<conc_vars, call_vars>>
    /\ UNCHANGED <<phase, COLLECT_PARAMS_COUNT, CALL_ONCE>>

\* drop_hook(address) of a script.
RemoveOp(address, disableOk, dropOk) ==
    /\ Running
    /\ LET r == drop_rdetour_at(RUNE_DETOURS, native, address, disableOk, dropOk)
       IN /\ RUNE_DETOURS' = r.dets
          /\ native' = r.native
          /\ last' = [NoLast EXCEPT !.op = "remove", !.addr = address,
                                    !.slot = r.slot, !.disableOk = disableOk,
                                    !.ret = RetBool(r.ret)]
    /\ UNCHANGED <<conc_vars, call_vars>>
    /\ UNCHANGED <<phase, COLLECT_PARAMS_COUNT, CALL_ONCE, crashed, ninstalls>>

\* call_rune_function_on_id(detour_id, args) for any id a u8 may carry.
DispatchOp(detour_id, stack, cbres) ==
    /\ Running
    /\ LET args == CollectArgs(stack, COLLECT_PARAMS_COUNT)
           r == call_rune_function_on_id(RUNE_DETOURS, detour_id, args, cbres)
       IN last' = [NoLast EXCEPT !.op = "dispatch", !.id = detour_id,
                                 !.args = args, !.cbres = cbres,
                                 !.ret = RetWord(r.ret), !.calls = r.calls]
    /\ UNCHANGED <<conc_vars, call_vars>>
    /\ UNCHANGED <<phase, COLLECT_PARAMS_COUNT, RUNE_DETOURS, CALL_ONCE, native,
                   crashed, ninstalls>>

\* A call of the function at address a by native code with the words of
\* stack: the original runs, or the holder its prologue jumps to.
native_call(dets, once, nat, a, stack, count, cbres) ==
    IF ~nat[a].some
    THEN [dets |-> dets, once |-> once, crash |-> FALSE, id |-> NumHolders,
          args |-> <<>>, ret |-> OriginalResult(a), calls |-> <<>>]
    ELSE LET h == detour_holder(dets, once, nat[a].v, stack, count, cbres)
         IN [dets |-> h.dets, once |-> h.once, crash |-> h.crash,
             id |-> nat[a].v, args |-> h.args, ret |-> h.ret,
             calls |-> h.calls]

\* Native code calls the function at address a.
NativeCallOp(a, stack, cbres) ==
    /\ Running
    /\ LET r == native_call(RUNE_DETOURS, CALL_ONCE, native, a, stack,
                            COLLECT_PARAMS_COUNT, cbres)
       IN /\ RUNE_DETOURS' = r.dets
          /\ CALL_ONCE' = r.once
          /\ crashed' = r.crash
          /\ last' = [NoLast EXCEPT !.op = "call", !.addr = a, !.id = r.id,
                                    !.args = r.args, !.cbres = cbres,
                                    !.ret = RetWord(r.ret), !.calls = r.calls]
    /\ UNCHANGED <<conc_vars, call_vars>>
    /\ UNCHANGED <<phase, COLLECT_PARAMS_COUNT, native, ninstalls>>

\* The call returns to its caller.
Return ==
    /\ last.op # "none"
    /\ ~crashed
    /\ last' = NoLast
    /\ UNCHANGED <<conc_vars, call_vars>>
    /\ UNCHANGED <<phase, COLLECT_PARAMS_COUNT, RUNE_DETOURS, CALL_ONCE, native,
                   crashed, ninstalls>>

Startup ==
    \/ \E cfg \in {None, Some(CfgCollect)} : LoadConfig(cfg)
    \/ \E stack \in Stacks, cbres \in CbResults : RegisterAll(stack, cbres)

Next ==
    \/ Startup
    \/ \E a \in Addrs, hook \in Hooks, sync \in BOOLEAN, dropOk \in BOOLEAN :
          \E prim \in PrimOutcomes(a) :
              InstallOp(MaxInstalls, a, hook.fn, sync, hook.opt, prim, dropOk)
    \/ \E a \in Addrs, disableOk \in BOOLEAN, dropOk \in BOOLEAN :
          RemoveOp(a, disableOk, dropOk)
    \/ \E id \in 0..NumHolders, stack \in Stacks, cbres \in CbResults :
          DispatchOp(id, stack, cbres)
    \/ \E a \in Addrs, stack \in Stacks, cbres \in CbResults :
          NativeCallOp(a, stack, cbres)
    \/ Return

Spec == Init /\ [][Next]_vars

(***************************************************************************)
(* SpecFill: the pool is filled.  The k-th hook_function call hooks        *)
(* address k, so that NumHolders + 1 calls name as many distinct           *)
(* addresses; once they are made, drop_hook is called on any address, the  *)
(* primitive disabling every detour it is asked to.                        *)
(***************************************************************************)
FillHook(a) ==
    IF a % 2 = 1 THEN [fn |-> "cb1", opt |-> None]
    ELSE [fn |-> "cb2", opt |-> Some("param")]

FillInstall(prim) ==
    InstallOp(NumHolders + 1, ninstalls + 1, FillHook(ninstalls + 1).fn, TRUE,
              FillHook(ninstalls + 1).opt, prim, TRUE)

FillRemove(a) ==
    /\ ninstalls = NumHolders + 1
    /\ RemoveOp(a, TRUE, TRUE)

NextFill ==
    \/ Startup
    \/ \E prim \in PrimOutcomes(ninstalls + 1) : FillInstall(prim)
    \/ \E a \in FillAddrs : FillRemove(a)
    \/ Return

SpecFill == Init /\ [][NextFill]_vars

(***************************************************************************)
(* SpecRoute: hooks come and go.  One more hook_function call than in Spec *)
(* is made, on addresses other than null, and the primitive accepts every  *)
(* request, so that an address can be hooked twice, unhooked twice, and a  *)
(* third hook can take a slot that was in use before.                      *)
(***************************************************************************)
RouteInstalls == MaxInstalls + 1

NextRoute ==
    \/ Startup
    \/ \E a \in Addrs \ {0}, hook \in Hooks :
          InstallOp(RouteInstalls, a, hook.fn, TRUE, hook.opt, "ok", TRUE)
    \/ \E a \in Addrs \ {0} : RemoveOp(a, TRUE, TRUE)
    \/ \E a \in Addrs \ {0}, stack \in Stacks, cbres \in CbResults :
          NativeCallOp(a, stack, cbres)
    \/ Return

SpecRoute == Init /\ [][NextRoute]_vars

(***************************************************************************)
(* Threads.  The calls again, cut at the points where they take and drop   *)
(* the locks: the RwLock of RUNE_DETOURS and the RwLock of each RDetour.   *)
(* Thread t hooks and unhooks address t, and hooks it only while no slot    *)
(* records it, so that the addresses of the calls in flight are disjoint;  *)
(* the primitive accepts every request.                                    *)
(***************************************************************************)
\* RwLock::try_read succeeds unless a writer holds the lock; RwLock::read
\* waits for that.
try_read(l) == l.w = 0
\* A try_write that succeeds in spite of readers.
TryWriteOverReaders(l) == l.w = 0

\* RwLock::try_write succeeds when nobody holds the lock.
try_write(l) == l.w = 0 /\ l.r = {}

AcquireRead(l, t) == [l EXCEPT !.r = @ \cup {t}]
ReleaseRead(l, t) == [l EXCEPT !.r = @ \ {t}]
AcquireWrite(l, t) == [l EXCEPT !.w = t]
ReleaseWrite(l, t) == [l EXCEPT !.w = 0]

\* drop_rdetour_at on thread t drops its guard of RUNE_DETOURS: the lock stays
\* read-locked by the thread when the call was made by a callback, for
\* call_rune_function_on_id holds a guard of its own.
DropRegistryGuard(t) ==
    IF threads[t].outer = <<>> THEN ReleaseRead(rune_detours_lock, t)
    ELSE rune_detours_lock

\* The process has started and has not crashed.
Alive == phase = "running" /\ ~crashed

\* crash!: the process ends where it is.
Crash ==
    /\ crashed' = TRUE
    /\ UNCHANGED <<phase, COLLECT_PARAMS_COUNT, RUNE_DETOURS, CALL_ONCE, native,
                   last, ninstalls, conc_vars, call_vars>>

\* hook_function(t, ..) on thread t: find_free_detour takes
\* RUNE_DETOURS.try_read(), or finds nothing when that fails.
InstallBegin(t) ==
    /\ Alive
    /\ threads[t].op = "idle"
    /\ FindByAddress(RUNE_DETOURS, t) = 0
    /\ ninstalls < MaxInstalls
    /\ ninstalls' = ninstalls + 1
    /\ IF try_read(rune_detours_lock)
       THEN /\ rune_detours_lock' = AcquireRead(rune_detours_lock, t)
            /\ threads' = [threads EXCEPT ![t] =
                   [Idle EXCEPT !.op = "install", !.pc = "find", !.a = t,
                                !.i = 1]]
       ELSE /\ UNCHANGED rune_detours_lock
            /\ threads' = [threads EXCEPT ![t] =
                   [Idle EXCEPT !.op = "install", !.pc = "done", !.a = t]]
    /\ UNCHANGED <<phase, COLLECT_PARAMS_COUNT, RUNE_DETOURS, CALL_ONCE, native,
                   crashed, last, rdetour_lock, call_vars>>

\* find_free_detour looks at the next slot: rdetour.read().is_detour_acquired().
InstallFind(t) ==
    /\ ~crashed
    /\ threads[t].op = "install" /\ threads[t].pc = "find"
    /\ LET i == threads[t].i
       IN IF i > Len(RUNE_DETOURS)
          THEN /\ rune_detours_lock' = ReleaseRead(rune_detours_lock, t)
               /\ threads' = [threads EXCEPT ![t].pc = "done"]
          ELSE /\ try_read(rdetour_lock[i])
               /\ IF ~is_detour_acquired(RUNE_DETOURS[i])
                  THEN /\ rune_detours_lock' = ReleaseRead(rune_detours_lock, t)
                       /\ threads' = [threads EXCEPT ![t].pc = "write",
                                                     ![t].at = i]
                  ELSE /\ UNCHANGED rune_detours_lock
                       /\ threads' = [threads EXCEPT ![t].i = i + 1]
    /\ UNCHANGED <<phase, COLLECT_PARAMS_COUNT, RUNE_DETOURS, CALL_ONCE, native,
                   crashed, last, ninstalls, rdetour_lock, call_vars>>

\* available_detour.try_write().unwrap_or_crash(..).install_detour(..): the
\* slot is written while its write lock is held.
InstallWrite(t) ==
    /\ ~crashed
    /\ threads[t].op = "install" /\ threads[t].pc = "write"
    /\ LET at == threads[t].at
           r == install_detour(RUNE_DETOURS[at], threads[t].a, FillHook(t).fn,
                               FillHook(t).opt, native, "ok", TRUE)
       IN IF ~try_write(rdetour_lock[at])
          THEN Crash
          ELSE /\ RUNE_DETOURS' = [RUNE_DETOURS EXCEPT ![at] = r.rd]
               /\ native' = r.native
               /\ crashed' = r.crash
               /\ rdetour_lock' = [rdetour_lock EXCEPT
                                      ![at] = AcquireWrite(@, t)]
               /\ threads' = [threads EXCEPT ![t].pc = "unlock"]
               /\ UNCHANGED <<phase, COLLECT_PARAMS_COUNT, CALL_ONCE, last,
                              ninstalls, rune_detours_lock, call_vars>>

\* install_detour returns and the write guard is dropped.
InstallUnlock(t) ==
    /\ ~crashed
    /\ threads[t].op = "install" /\ threads[t].pc = "unlock"
    /\ rdetour_lock' = [rdetour_lock EXCEPT
                           ![threads[t].at] = ReleaseWrite(@, t)]
    /\ threads' = [threads EXCEPT ![t].pc = "done"]
    /\ UNCHANGED <<phase, COLLECT_PARAMS_COUNT, RUNE_DETOURS, CALL_ONCE, native,
                   crashed, last, ninstalls, rune_detours_lock, call_vars>>

\* drop_hook(address) on thread t: RUNE_DETOURS.try_read(), false when that
\* fails.
RemoveBegin(t, address) ==
    /\ Alive
    /\ threads[t].op = "idle"
    /\ IF try_read(rune_detours_lock)
       THEN /\ rune_detours_lock' = AcquireRead(rune_detours_lock, t)
            /\ threads' = [threads EXCEPT ![t] =
                   [Idle EXCEPT !.op = "remove", !.pc = "find", !.a = address,
                                !.i = 1]]
       ELSE /\ UNCHANGED rune_detours_lock
            /\ threads' = [threads EXCEPT ![t] =
                   [Idle EXCEPT !.op = "remove", !.pc = "done", !.a = address,
                                !.ret = RetBool(FALSE)]]
    /\ UNCHANGED <<phase, COLLECT_PARAMS_COUNT, RUNE_DETOURS, CALL_ONCE, native,
                   crashed, last, ninstalls, rdetour_lock, call_vars>>

\* drop_rdetour_at looks at the next slot:
\* rdetour.try_read().unwrap_or_crash(..).get_from_address().
RemoveFind(t) ==
    /\ ~crashed
    /\ threads[t].op = "remove" /\ threads[t].pc = "find"
    /\ LET i == threads[t].i
       IN IF i > Len(RUNE_DETOURS)
          THEN /\ rune_detours_lock' = DropRegistryGuard(t)
               /\ threads' = [threads EXCEPT ![t].pc = "done",
                                             ![t].ret = RetBool(FALSE)]
               /\ UNCHANGED <<phase, COLLECT_PARAMS_COUNT, RUNE_DETOURS,
                              CALL_ONCE, native, crashed, last, ninstalls,
                              rdetour_lock, call_vars>>
          ELSE IF ~try_read(rdetour_lock[i])
          THEN Crash
          ELSE /\ threads' = [threads EXCEPT
                     ![t] = IF unwrap_or_default(
                                   get_from_address(RUNE_DETOURS[i])) = @.a
                            THEN [@ EXCEPT !.pc = "write", !.at = i]
                            ELSE [@ EXCEPT !.i = i + 1]]
               /\ UNCHANGED <<phase, COLLECT_PARAMS_COUNT, RUNE_DETOURS,
                              CALL_ONCE, native, crashed, last, ninstalls,
                              rune_detours_lock, rdetour_lock, call_vars>>

\* rdetour.try_write(), false when that fails; else the slot is released
\* while its write lock is held.
RemoveWrite(t) ==
    /\ ~crashed
    /\ threads[t].op = "remove" /\ threads[t].pc = "write"
    /\ LET at == threads[t].at
           r == drop_found(RUNE_DETOURS, native, at, TRUE, TRUE)
       IN IF ~try_write(rdetour_lock[at])
          THEN /\ rune_detours_lock' = DropRegistryGuard(t)
               /\ threads' = [threads EXCEPT ![t].pc = "done",
                                             ![t].ret = RetBool(FALSE)]
               /\ UNCHANGED <<RUNE_DETOURS, native, rdetour_lock>>
          ELSE /\ RUNE_DETOURS' = r.dets
               /\ native' = r.native
               /\ rdetour_lock' = [rdetour_lock EXCEPT
                                      ![at] = AcquireWrite(@, t)]
               /\ threads' = [threads EXCEPT ![t].pc = "unlock",
                                             ![t].ret = RetBool(r.ret)]
               /\ UNCHANGED rune_detours_lock
    /\ UNCHANGED <<phase, COLLECT_PARAMS_COUNT, CALL_ONCE, crashed, last,
                   ninstalls, call_vars>>

\* drop_rdetour_at returns: the write guard and the registry guard are dropped.
RemoveUnlock(t) ==
    /\ ~crashed
    /\ threads[t].op = "remove" /\ threads[t].pc = "unlock"
    /\ rdetour_lock' = [rdetour_lock EXCEPT
                           ![threads[t].at] = ReleaseWrite(@, t)]
    /\ rune_detours_lock' = DropRegistryGuard(t)
    /\ threads' = [threads EXCEPT ![t].pc = "done"]
    /\ UNCHANGED <<phase, COLLECT_PARAMS_COUNT, RUNE_DETOURS, CALL_ONCE, native,
                   crashed, last, ninstalls, call_vars>>

\* Native code on thread t calls the function at address t: the original
\* runs, or the holder its prologue jumps to is entered.
CallBegin(t) ==
    /\ Alive
    /\ threads[t].op = "idle"
    /\ threads' = [threads EXCEPT ![t] =
           IF native[t].some
           THEN [Idle EXCEPT !.op = "call", !.pc = "once", !.a = t,
                             !.id = native[t].v]
           ELSE [Idle EXCEPT !.op = "call", !.pc = "done", !.a = t,
                             !.id = NumHolders,
                             !.ret = RetWord(OriginalResult(t))]]
    /\ UNCHANGED <<phase, COLLECT_PARAMS_COUNT, RUNE_DETOURS, CALL_ONCE, native,
                   crashed, last, ninstalls, rune_detours_lock, rdetour_lock,
                   call_vars>>

\* Thread t runs register_all_detours: it enters detour_holder_00.
RegisterBegin(t) ==
    /\ phase = "configured" /\ ~crashed
    /\ threads[t].op = "idle"
    /\ threads' = [threads EXCEPT ![t] =
           [Idle EXCEPT !.op = "register", !.pc = "once"]]
    /\ UNCHANGED <<phase, COLLECT_PARAMS_COUNT, RUNE_DETOURS, CALL_ONCE, native,
                   crashed, last, ninstalls, rune_detours_lock, rdetour_lock,
                   call_vars>>

\* CALL_ONCE.call_once(|| register_new_detour(id)) of the holder thread t is
\* in.  The closure runs on the first thread to come and the Once is complete
\* when it returns, whatever it did: register_new_detour returns without
\* registering when RUNE_DETOURS.try_write() fails.
HolderOnce(t) ==
    /\ ~crashed
    /\ threads[t].pc = "once"
    /\ LET id == threads[t].id
           r == register_new_detour(RUNE_DETOURS, id)
       IN IF CALL_ONCE[id]
          THEN UNCHANGED <<RUNE_DETOURS, CALL_ONCE, crashed>>
          ELSE /\ CALL_ONCE' = [CALL_ONCE EXCEPT ![id] = TRUE]
               /\ IF try_write(rune_detours_lock)
                  THEN RUNE_DETOURS' = r.dets /\ crashed' = r.crash
                  ELSE UNCHANGED <<RUNE_DETOURS, crashed>>
    /\ threads' = [threads EXCEPT ![t].pc = "dread"]
    /\ UNCHANGED <<phase, COLLECT_PARAMS_COUNT, native, last, ninstalls,
                   rune_detours_lock, rdetour_lock, call_vars>>

\* call_rune_function_on_id: RUNE_DETOURS.try_read(), 0 when that fails.
DispatchRead(t) ==
    /\ ~crashed
    /\ threads[t].pc = "dread"
    /\ IF try_read(rune_detours_lock)
       THEN /\ rune_detours_lock' = AcquireRead(rune_detours_lock, t)
            /\ threads' = [threads EXCEPT ![t].pc = "dfind", ![t].i = 1]
       ELSE /\ UNCHANGED rune_detours_lock
            /\ threads' = [threads EXCEPT ![t].pc = "hret",
                                          ![t].ret = RetWord(0)]
    /\ UNCHANGED <<phase, COLLECT_PARAMS_COUNT, RUNE_DETOURS, CALL_ONCE, native,
                   crashed, last, ninstalls, rdetour_lock, call_vars>>

\* call_rune_function_on_id looks at the next slot:
\* rdetour.read().get_detour_id() == detour_id.
DispatchFind(t) ==
    /\ ~crashed
    /\ threads[t].pc = "dfind"
    /\ LET i == threads[t].i
       IN IF i > Len(RUNE_DETOURS)
          THEN /\ rune_detours_lock' = ReleaseRead(rune_detours_lock, t)
               /\ threads' = [threads EXCEPT ![t].pc = "hret",
                                             ![t].ret = RetWord(0)]
          ELSE /\ try_read(rdetour_lock[i])
               /\ UNCHANGED rune_detours_lock
               /\ threads' = [threads EXCEPT
                     ![t] = IF get_detour_id(RUNE_DETOURS[i]) = @.id
                            THEN [@ EXCEPT !.pc = "dtry", !.at = i]
                            ELSE [@ EXCEPT !.i = i + 1]]
    /\ UNCHANGED <<phase, COLLECT_PARAMS_COUNT, RUNE_DETOURS, CALL_ONCE, native,
                   crashed, last, ninstalls, rdetour_lock, call_vars>>

\* A dispatch that unwraps rdetour.try_read() the way drop_rdetour_at does.
DispatchTryUnwraps(t) ==
    /\ ~crashed
    /\ threads[t].pc = "dtry"
    /\ IF ~try_read(rdetour_lock[threads[t].at])
       THEN Crash
       ELSE /\ rune_detours_lock' = ReleaseRead(rune_detours_lock, t)
            /\ threads' = [threads EXCEPT ![t].pc = "hret",
                                          ![t].ret = RetWord(0)]
            /\ UNCHANGED <<phase, COLLECT_PARAMS_COUNT, RUNE_DETOURS,
                           CALL_ONCE, native, crashed, last, ninstalls,
                           rdetour_lock, call_vars>>

\* rdetour.try_read(), 0 when that fails or when the slot has no
\* rune_function or no RawDetour; else the callback is entered with the read
\* guards of the slot and of the registry held.
DispatchTry(t) ==
    /\ ~crashed
    /\ threads[t].pc = "dtry"
    /\ LET at == threads[t].at
           rdetour == RUNE_DETOURS[at]
       IN IF /\ try_read(rdetour_lock[at])
             /\ get_rune_function(rdetour).some
             /\ get_raw_detour(rdetour).some
          THEN /\ rdetour_lock' = [rdetour_lock EXCEPT
                                      ![at] = AcquireRead(@, t)]
               /\ threads' = [threads EXCEPT ![t].pc = "incb"]
               /\ UNCHANGED rune_detours_lock
          ELSE /\ rune_detours_lock' = ReleaseRead(rune_detours_lock, t)
               /\ threads' = [threads EXCEPT ![t].pc = "hret",
                                             ![t].ret = RetWord(0)]
               /\ UNCHANGED rdetour_lock
    /\ UNCHANGED <<phase, COLLECT_PARAMS_COUNT, RUNE_DETOURS, CALL_ONCE, native,
                   crashed, last, ninstalls, call_vars>>

\* The callback answers cbres; call_rune_function_on_id returns and drops
\* both read guards.
DispatchCallback(t, cbres) ==
    /\ ~crashed
    /\ threads[t].pc = "incb"
    /\ rdetour_lock' = [rdetour_lock EXCEPT
                           ![threads[t].at] = ReleaseRead(@, t)]
    /\ rune_detours_lock' = ReleaseRead(rune_detours_lock, t)
    /\ threads' = [threads EXCEPT ![t].pc = "hret",
                                  ![t].ret = RetWord(CallbackResult(cbres))]
    /\ UNCHANGED <<phase, COLLECT_PARAMS_COUNT, RUNE_DETOURS, CALL_ONCE, native,
                   crashed, last, ninstalls, call_vars>>

\* The holder returns: to native code, or to register_all_detours, which
\* enters the next holder.
HolderReturn(t) ==
    /\ ~crashed
    /\ threads[t].pc = "hret"
    /\ threads' = [threads EXCEPT
          ![t] = IF @.op = "register" /\ @.id < NumHolders - 1
                 THEN [@ EXCEPT !.pc = "once", !.id = @ + 1, !.i = 0,
                                !.at = 0, !.ret = RetUnit]
                 ELSE [@ EXCEPT !.pc = "done"]]
    /\ UNCHANGED <<phase, COLLECT_PARAMS_COUNT, RUNE_DETOURS, CALL_ONCE, native,
                   crashed, last, ninstalls, rune_detours_lock, rdetour_lock,
                   call_vars>>

\* The call of thread t returns to its caller.
ThreadReturn(t) ==
    /\ Alive
    /\ threads[t].pc = "done"
    /\ threads[t].outer = <<>>
    /\ threads' = [threads EXCEPT ![t] = Idle]
    /\ UNCHANGED <<phase, COLLECT_PARAMS_COUNT, RUNE_DETOURS, CALL_ONCE, native,
                   crashed, last, ninstalls, rune_detours_lock, rdetour_lock,
                   call_vars>>

\* SpecConc: after startup, every thread calls hook_function, drop_hook and
\* the function at its address, in any order and at any pace.
NextConc ==
    \/ Startup
    \/ \E t \in Threads :
          \/ InstallBegin(t)
          \/ InstallFind(t)
          \/ InstallWrite(t)
          \/ InstallUnlock(t)
          \/ RemoveBegin(t, t)
          \/ RemoveFind(t)
          \/ RemoveWrite(t)
          \/ RemoveUnlock(t)
          \/ CallBegin(t)
          \/ HolderOnce(t)
          \/ DispatchRead(t)
          \/ DispatchFind(t)
          \/ DispatchTry(t)
          \/ \E cbres \in CbResults : DispatchCallback(t, cbres)
          \/ HolderReturn(t)
          \/ ThreadReturn(t)

SpecConc == Init /\ [][NextConc]_vars

\* A step of the call thread t is in: everything but the start of a call.
Proceed(t) ==
    \/ InstallFind(t)
    \/ InstallWrite(t)
    \/ InstallUnlock(t)
    \/ RemoveFind(t)
    \/ RemoveWrite(t)
    \/ RemoveUnlock(t)
    \/ HolderOnce(t)
    \/ DispatchRead(t)
    \/ DispatchFind(t)
    \/ DispatchTry(t)
    \/ \E cbres \in CbResults : DispatchCallback(t, cbres)
    \/ HolderReturn(t)
    \/ ThreadReturn(t)

\* SpecConcLive: SpecConc where every thread that can take its next step
\* takes it in the end: threads are scheduled, every callback terminates and
\* a thread that waits in RwLock::read gets the lock once it stays free.
SpecConcLive == SpecConc /\ \A t \in Threads : WF_vars(Proceed(t))

\* The script callback that runs on thread t calls drop_hook(address), once:
\* drop_rdetour_at is entered on the same thread, under the guards that
\* call_rune_function_on_id holds, and its RUNE_DETOURS.try_read() finds the
\* lock read-locked by the thread itself.
CallbackRemove(t, address) ==
    /\ ~crashed
    /\ threads[t].pc = "incb"
    /\ threads[t].cbret = RetUnit
    /\ threads' = [threads EXCEPT ![t] =
           IF try_read(rune_detours_lock)
           THEN [Idle EXCEPT !.op = "remove", !.pc = "find", !.a = address,
                             !.i = 1, !.outer = <<threads[t]>>]
           ELSE [Idle EXCEPT !.op = "remove", !.pc = "done", !.a = address,
                             !.ret = RetBool(FALSE), !.outer = <<threads[t]>>]]
    /\ UNCHANGED <<phase, COLLECT_PARAMS_COUNT, RUNE_DETOURS, CALL_ONCE, native,
                   crashed, last, ninstalls, rune_detours_lock, rdetour_lock,
                   call_vars>>

\* drop_hook returns to the script callback that called it.
CallbackResume(t) ==
    /\ ~crashed
    /\ threads[t].pc = "done"
    /\ threads[t].outer # <<>>
    /\ threads' = [threads EXCEPT ![t] =
           [threads[t].outer[1] EXCEPT !.cbret = threads[t].ret]]
    /\ UNCHANGED <<phase, COLLECT_PARAMS_COUNT, RUNE_DETOURS, CALL_ONCE, native,
                   crashed, last, ninstalls, rune_detours_lock, rdetour_lock,
                   call_vars>>

\* drop_hook(address) on thread t for an address that a slot records.
RemoveHookedBegin(t, address) ==
    /\ FindByAddress(RUNE_DETOURS, address) # 0
    /\ RemoveBegin(t, address)

\* SpecCb: thread 1 hooks address 1 and calls it; while a slot records the
\* address, every thread calls drop_hook(1), thread 1 from native code and
\* from inside the script callback it runs.
NextCb ==
    \/ Startup
    \/ InstallBegin(1)
    \/ CallBegin(1)
    \/ CallbackRemove(1, 1)
    \/ \E t \in Threads :
          \/ InstallFind(t)
          \/ InstallWrite(t)
          \/ InstallUnlock(t)
          \/ RemoveHookedBegin(t, 1)
          \/ RemoveFind(t)
          \/ RemoveWrite(t)
          \/ RemoveUnlock(t)
          \/ HolderOnce(t)
          \/ DispatchRead(t)
          \/ DispatchFind(t)
          \/ DispatchTry(t)
          \/ CallbackResume(t)
          \/ \E cbres \in CbResults : DispatchCallback(t, cbres)
          \/ HolderReturn(t)
          \/ ThreadReturn(t)

SpecCb == Init /\ [][NextCb]_vars

\* SpecReg: the threads run register_all_detours at the same time.
NextReg ==
    \/ \E cfg \in {None, Some(CfgCollect)} : LoadConfig(cfg)
    \/ \E t \in Threads :
          \/ RegisterBegin(t)
          \/ HolderOnce(t)
          \/ DispatchRead(t)
          \/ DispatchFind(t)
          \/ DispatchTry(t)
          \/ HolderReturn(t)

SpecReg == Init /\ [][NextReg]_vars

(***************************************************************************)
(* FNCaller: call_auto_raw, call_auto and the call shapes call, call_00 .. *)
(* call_09.  An i64 is a signed word, a *const i64 the same bits unsigned. *)
(***************************************************************************)
WordMod == 2 ^ WordBits

\* `x as *const i64` for an i64 x: the bits of x.
AsPtr(x) == x % WordMod
\* `p as i64` for a pointer p: the bits of p, signed.
AsI64(p) == IF p >= WordMod \div 2 THEN p - WordMod ELSE p

\* The i64 values a script passes, and the Rune values it passes to fn_call:
\* integers, and a value value_as_ptr has no pointer for.
ParamValues == {0 - 1, 2}
RuneValues == {[int |-> TRUE, v |-> 2], [int |-> FALSE]}
FnPtrs == {1, 2}

SeqsUpTo(S, n) == UNION {[1..k -> S] : k \in 0..n}

\* ScriptCore::value_as_ptr(value).
value_as_ptr(value) == IF value.int THEN Some(AsPtr(value.v)) ELSE None

\* What the native function at fn answers when it is entered with args: it
\* tells its arguments and their order apart.
RECURSIVE Weighted(_, _)
Weighted(args, k) == IF k = 0 THEN 0 ELSE k * args[k] + Weighted(args, k - 1)
Callee(fn, args) == (fn + Weighted(args, Len(args))) % WordMod

\* call / call_00 .. call_09: fn_ptr is transmuted into an extern "system" fn
\* of that many *const i64 parameters and called once with them.
call_shape(arity, fn_ptr, args) ==
    LET ptrs == [i \in 1..arity |-> AsPtr(args[i])]
    IN [ret |-> AsI64(Callee(AsPtr(fn_ptr), ptrs)),
        invoked |-> << [shape |-> arity, fn |-> AsPtr(fn_ptr),
                        args |-> ptrs] >>]

\* The arguments of a match arm taken the wrong way round.
ArmArgsReversed(params, params_len) ==
    [i \in 1..params_len |-> params[params_len + 1 - i]]

\* The arguments of the match arm of params_len: params[0], .., in order.
ArmArgs(params, params_len) == [i \in 1..params_len |-> params[i]]

\* A length check that lets one parameter too many through.
TooManyParamsOffByOne(params_len) == params_len > MaxArity + 1

\* if params_len > 10.
TooManyParams(params_len) == params_len > MaxArity

\* call_auto_raw(fn_ptr, params).
call_auto_raw(fn_ptr, params) ==
    LET params_len == Len(params)
    IN IF TooManyParams(params_len)
       THEN [ret |-> 0, invoked |-> <<>>, crash |-> FALSE]
       ELSE IF params_len \in 0..MaxArity
            THEN LET c == call_shape(params_len, fn_ptr,
                                     ArmArgs(params, params_len))
                 IN [ret |-> c.ret, invoked |-> c.invoked, crash |-> FALSE]
            ELSE [ret |-> 0, invoked |-> <<>>, crash |-> TRUE]

\* call_auto(fn_ptr, params): every value is turned into a pointer, crash!
\* on one that has none, then call_auto_raw.
call_auto(fn_ptr, params) ==
    LET params_len == Len(params)
        ptrs == [i \in 1..params_len |-> value_as_ptr(params[i])]
    IN IF TooManyParams(params_len)
       THEN [ret |-> 0, invoked |-> <<>>, crash |-> FALSE, marshaled |-> 0]
       ELSE IF \E i \in 1..params_len : ~ptrs[i].some
            THEN [ret |-> 0, invoked |-> <<>>, crash |-> TRUE,
                  marshaled |-> Min({i \in 1..params_len : ~ptrs[i].some}) - 1]
            ELSE LET r == call_auto_raw(fn_ptr,
                              [i \in 1..params_len |-> AsI64(ptrs[i].v)])
                 IN [ret |-> r.ret, invoked |-> r.invoked, crash |-> r.crash,
                     marshaled |-> params_len]

\* fn_call_raw(fn_ptr, params) of a script.
CallAutoRawOp(fn_ptr, params) ==
    /\ ~crashed /\ fncall.op = "none"
    /\ LET r == call_auto_raw(fn_ptr, params)
       IN /\ fncall' = [op |-> "call_auto_raw", fn_ptr |-> fn_ptr,
                        params |-> params, ret |-> r.ret,
                        invoked |-> r.invoked, marshaled |-> 0]
          /\ crashed' = r.crash
    /\ UNCHANGED <<phase, COLLECT_PARAMS_COUNT, RUNE_DETOURS, CALL_ONCE, native,
                   last, ninstalls, conc_vars>>

\* fn_call(fn_ptr, params) of a script.
CallAutoOp(fn_ptr, params) ==
    /\ ~crashed /\ fncall.op = "none"
    /\ LET r == call_auto(fn_ptr, params)
       IN /\ fncall' = [op |-> "call_auto", fn_ptr |-> fn_ptr,
                        params |-> params, ret |-> r.ret,
                        invoked |-> r.invoked, marshaled |-> r.marshaled]
          /\ crashed' = r.crash
    /\ UNCHANGED <<phase, COLLECT_PARAMS_COUNT, RUNE_DETOURS, CALL_ONCE, native,
                   last, ninstalls, conc_vars>>

\* The call returns to the script.
CallReturn ==
    /\ ~crashed /\ fncall.op # "none"
    /\ fncall' = NoCall
    /\ UNCHANGED <<phase, COLLECT_PARAMS_COUNT, RUNE_DETOURS, CALL_ONCE, native,
                   crashed, last, ninstalls, conc_vars>>

NextCall ==
    \/ /\ fncall.op = "none"
       /\ \E fn_ptr \in FnPtrs, params \in SeqsUpTo(ParamValues, MaxParams) :
              CallAutoRawOp(fn_ptr, params)
    \/ /\ fncall.op = "none"
       /\ \E fn_ptr \in FnPtrs, params \in SeqsUpTo(RuneValues, MaxParams) :
              CallAutoOp(fn_ptr, params)
    \/ CallReturn

SpecCall == Init /\ [][NextCall]_vars

(***************************************************************************)
(* Properties.                                                             *)
(***************************************************************************)
Slots == DOMAIN RUNE_DETOURS

\* Address a is the target of an Installed slot of dets.
InstalledAt(dets, a) ==
    \E i \in DOMAIN dets : Installed(dets[i]) /\ dets[i].from_ptr.v = a

\* The slots of dets that are Installed on a.
SlotsAt(dets, a) ==
    {i \in DOMAIN dets : Installed(dets[i]) /\ dets[i].from_ptr.v = a}

\* The step is a call of op: the caller was idle, the call has returned.
StepOf(op) == last.op = "none" /\ last'.op = op

\* C1: no two Installed slots of the registry hold the same target address.
C1_NoSharedTarget ==
    \A i, j \in Slots :
        (i # j /\ Installed(RUNE_DETOURS[i]) /\ Installed(RUNE_DETOURS[j]))
            => RUNE_DETOURS[i].from_ptr.v # RUNE_DETOURS[j].from_ptr.v

\* C2: while the process runs and no operation is inside the pool, every slot
\* has its target address present exactly when its RawDetour is present.
C2_NoPartialSlot ==
    ~crashed =>
        \A i \in Slots :
            RUNE_DETOURS[i].from_ptr.some <=> RUNE_DETOURS[i].detour.some

(***************************************************************************)
(* C3: filling the pool.                                                   *)
(***************************************************************************)
FreeSlots(dets) == {i \in DOMAIN dets : Free(dets[i])}

\* What C3 says of one step, fullRet being what hook_function returns when no
\* slot is free.
C3_Step(fullRet) ==
    /\ StepOf("install") =>
          IF FreeSlots(RUNE_DETOURS) = {}
          THEN /\ last'.ret = fullRet
               /\ RUNE_DETOURS' = RUNE_DETOURS
               /\ native' = native
               /\ ~crashed'
          ELSE last'.prim = "ok" =>
                  /\ ~crashed'
                  /\ \E i \in FreeSlots(RUNE_DETOURS) :
                        /\ Installed(RUNE_DETOURS'[i])
                        /\ RUNE_DETOURS'[i].from_ptr = Some(last'.addr)
                        /\ RUNE_DETOURS'[i].rune_function = Some(last'.fn)
                        /\ RUNE_DETOURS'[i].opt_param = last'.opt
                        /\ \A j \in Slots \ {i} :
                              RUNE_DETOURS'[j] = RUNE_DETOURS[j]
    /\ (StepOf("remove") /\ InstalledAt(RUNE_DETOURS, last'.addr)) =>
          /\ last'.ret = RetBool(TRUE)
          /\ \E i \in SlotsAt(RUNE_DETOURS, last'.addr) :
                /\ Free(RUNE_DETOURS'[i])
                /\ \A j \in Slots \ {i} : RUNE_DETOURS'[j] = RUNE_DETOURS[j]
    /\ Len(RUNE_DETOURS') <= NumHolders
    /\ Cardinality({i \in DOMAIN RUNE_DETOURS' : Installed(RUNE_DETOURS'[i])})
          <= NumHolders

C4_SecondInstallRejected ==
    [][(StepOf("install") /\ last'.sync
            /\ InstalledAt(RUNE_DETOURS, last'.addr))
        => (/\ last'.ret = RetBool(FALSE)
            /\ ~crashed'
            /\ RUNE_DETOURS' = RUNE_DETOURS
            /\ native' = native)]_vars

\* C5: when the primitive refuses to create or to enable the hook, install
\* returns false, the process keeps running and the claimed slot is Free again
\* with callback, opt_param and target address cleared.
C5_InstallRollsBack ==
    [][(StepOf("install") /\ last'.slot # 0 /\ last'.prim # "ok")
        => (/\ last'.ret = RetBool(FALSE)
            /\ ~crashed'
            /\ Free(RUNE_DETOURS'[last'.slot])
            /\ ~RUNE_DETOURS'[last'.slot].rune_function.some
            /\ ~RUNE_DETOURS'[last'.slot].opt_param.some)]_vars

\* C6: when drop_hook finds the Installed slot of the address and the
\* primitive fails to disable the hook, it returns false and leaves every
\* field of the slot as it was.
C6_FailedDisableKeepsSlot ==
    [][(StepOf("remove") /\ ~last'.disableOk /\ last'.slot # 0
            /\ Installed(RUNE_DETOURS[last'.slot])
            /\ RUNE_DETOURS[last'.slot].from_ptr.v = last'.addr)
        => (/\ last'.ret = RetBool(FALSE)
            /\ RUNE_DETOURS' = RUNE_DETOURS)]_vars

\* C7: drop_hook on an address that no Installed slot targets (0 included)
\* returns false and changes no field of any slot.
C7_RemoveUnknownChangesNothing ==
    [][(StepOf("remove") /\ ~InstalledAt(RUNE_DETOURS, last'.addr))
        => (/\ last'.ret = RetBool(FALSE)
            /\ RUNE_DETOURS' = RUNE_DETOURS)]_vars

\* drop_hook(0) has matched a slot whose from_ptr is absent, while another
\* slot is Installed, and has returned false.
C7_Witness ==
    /\ last.op = "remove"
    /\ last.addr = 0
    /\ last.slot # 0
    /\ ~RUNE_DETOURS[last.slot].from_ptr.some
    /\ last.ret = RetBool(FALSE)
    /\ \E i \in Slots : Installed(RUNE_DETOURS[i])

\* C8: drop_hook on an Installed address, its hook being disabled, returns
\* true and frees the slot, after which calls of the address reach no
\* callback and another drop_hook of the address returns false.
C8_RemoveThenRemoveAgainFalse ==
    [][(StepOf("remove") /\ last'.disableOk
            /\ InstalledAt(RUNE_DETOURS, last'.addr))
        => (/\ last'.ret = RetBool(TRUE)
            /\ Free(RUNE_DETOURS'[last'.slot])
            /\ \A st \in Stacks, cbres \in CbResults :
                  native_call(RUNE_DETOURS', CALL_ONCE', native', last'.addr,
                              st, COLLECT_PARAMS_COUNT', cbres).calls = <<>>
            /\ ~drop_rdetour_at(RUNE_DETOURS', native', last'.addr, TRUE,
                                TRUE).ret)]_vars

\* The slot dispatch is called on, 0 when the id is not registered.
SlotOfId(dets, id) ==
    IF \E i \in DOMAIN dets : dets[i].detour_id = id
    THEN CHOOSE i \in DOMAIN dets : dets[i].detour_id = id
    ELSE 0

\* C9: dispatch on an Installed slot calls the slot's callback once, with the
\* slot's trampoline (not null), the arguments as given and the slot's
\* opt_param, and returns the value the callback returns.
C9_DispatchCallsCallback ==
    (last.op = "dispatch" /\ SlotOfId(RUNE_DETOURS, last.id) # 0
        /\ Installed(RUNE_DETOURS[SlotOfId(RUNE_DETOURS, last.id)]))
    => LET rd == RUNE_DETOURS[SlotOfId(RUNE_DETOURS, last.id)]
       IN /\ Len(last.calls) = 1
          /\ last.calls[1].fn = rd.rune_function.v
          /\ last.calls[1].original = rd.detour.v.trampoline
          /\ last.calls[1].original # 0
          /\ last.calls[1].args = last.args
          /\ last.calls[1].opt = rd.opt_param
          /\ last.cbres.ok => last.ret = RetWord(last.cbres.v)

\* dispatch on the second slot, Installed with an opt_param, has called the
\* callback with the collected words and returned its value.
C9_Witness ==
    /\ last.op = "dispatch"
    /\ last.id = 1
    /\ Installed(RUNE_DETOURS[2])
    /\ Len(last.calls) = 1
    /\ last.calls[1].opt = Some("param")
    /\ Len(last.calls[1].args) = COLLECT_PARAMS_COUNT
    /\ last.cbres.ok
    /\ last.ret = RetWord(last.cbres.v)

\* C10: dispatch on a Free slot, or on an id no slot carries, returns 0, calls
\* no callback and changes no slot.
C10_DispatchFreeReturnsZero ==
    [][(StepOf("dispatch")
            /\ (SlotOfId(RUNE_DETOURS, last'.id) = 0
                \/ Free(RUNE_DETOURS[SlotOfId(RUNE_DETOURS, last'.id)])))
        => (/\ last'.ret = RetWord(0)
            /\ last'.calls = <<>>
            /\ RUNE_DETOURS' = RUNE_DETOURS)]_vars

\* dispatch has returned 0 without a call on a slot that a drop_hook freed
\* (its opt_param is still there) while another slot is Installed.
C10_Witness ==
    /\ last.op = "dispatch"
    /\ SlotOfId(RUNE_DETOURS, last.id) # 0
    /\ Free(RUNE_DETOURS[SlotOfId(RUNE_DETOURS, last.id)])
    /\ RUNE_DETOURS[SlotOfId(RUNE_DETOURS, last.id)].opt_param.some
    /\ \E i \in Slots : Installed(RUNE_DETOURS[i])
    /\ last.ret = RetWord(0)
    /\ last.calls = <<>>

(***************************************************************************)
(* C11: a callback that reports an error.                                  *)
(***************************************************************************)
\* C11: when the callback called by dispatch, directly or through a holder,
\* reports an error, the caller gets 0, the process keeps running, no slot and
\* no redirection changes, and a later call of the same id reaches the same
\* callback again.
C11_CallbackErrorReturnsZero ==
    [][((StepOf("dispatch") \/ StepOf("call"))
            /\ last'.calls # <<>> /\ ~last'.cbres.ok)
        => (/\ last'.ret = RetWord(0)
            /\ ~crashed'
            /\ RUNE_DETOURS' = RUNE_DETOURS
            /\ native' = native
            /\ Installed(RUNE_DETOURS'[SlotOfId(RUNE_DETOURS', last'.id)])
            /\ \A cbres \in CbResults :
                  LET again == call_rune_function_on_id(RUNE_DETOURS', last'.id,
                                                        last'.args, cbres)
                  IN /\ Len(again.calls) = 1
                     /\ again.calls[1].fn = last'.calls[1].fn)]_vars

\* Native code has called a hooked function, the callback has reported an
\* error and the caller has got 0 from a process that still runs.
C11_Witness ==
    /\ last.op = "call"
    /\ native[last.addr].some
    /\ Len(last.calls) = 1
    /\ ~last.cbres.ok
    /\ last.ret = RetWord(0)
    /\ ~crashed

(***************************************************************************)
(* C12 .. C15: calls made by several threads at the same time.             *)
(***************************************************************************)
\* C12: whatever the threads do with hook_function, drop_hook and intercepted
\* calls, the process never reaches crash!.
C12_NeverCrashes == ~crashed

\* A step of call_rune_function_on_id on thread t.
DispatchStep(t) ==
    \/ DispatchRead(t)
    \/ DispatchFind(t)
    \/ DispatchTry(t)
    \/ \E cbres \in CbResults : DispatchCallback(t, cbres)

AllReturned == ~crashed /\ \A t \in Threads : threads[t].op = "idle"

\* C14: once the concurrent hook_function and drop_hook calls on disjoint
\* addresses have all returned, no two slots record the same target address
\* and no slot has exactly one of from_ptr and detour.
C14_DisjointCallsLeaveNoDamage ==
    AllReturned =>
        /\ \A i, j \in Slots :
              (i # j /\ RUNE_DETOURS[i].from_ptr.some
                     /\ RUNE_DETOURS[j].from_ptr.some)
                  => RUNE_DETOURS[i].from_ptr # RUNE_DETOURS[j].from_ptr
        /\ \A i \in Slots :
              RUNE_DETOURS[i].from_ptr.some <=> RUNE_DETOURS[i].detour.some

\* The hook_function calls of threads 1 and 2 have both returned and both
\* addresses are Installed, that of thread 2 in the first slot.
C14_Witness ==
    /\ AllReturned
    /\ ninstalls = 2
    /\ Installed(RUNE_DETOURS[1]) /\ RUNE_DETOURS[1].from_ptr.v = 2
    /\ Installed(RUNE_DETOURS[2]) /\ RUNE_DETOURS[2].from_ptr.v = 1

\* C15: a hook_function call that races with another for the same Free slot
\* claims another slot: whenever the call returns, with Free slots left, its
\* address is Installed, and taking the slot it found never ends the process.
C15_RacingInstallClaimsAnotherSlot ==
    [][\A t \in Threads :
          /\ (threads[t].op = "install" /\ threads[t].pc # "done"
                  /\ threads'[t].pc = "done"
                  /\ FreeSlots(RUNE_DETOURS') # {})
                 => InstalledAt(RUNE_DETOURS', threads[t].a)
          /\ InstallWrite(t) => ~crashed']_vars

(***************************************************************************)
(* C16, C17: FNCaller.                                                     *)
(***************************************************************************)
\* C16: call_auto_raw with k <= 10 parameters enters the function at fn_ptr
\* once, through the shape of arity k, with the k parameters in their order,
\* and returns what the function answers, bit for bit.
C16_CallRawUsesShapeOfArity ==
    (fncall.op = "call_auto_raw" /\ Len(fncall.params) <= MaxArity) =>
        /\ ~crashed
        /\ Len(fncall.invoked) = 1
        /\ fncall.invoked[1].shape = Len(fncall.params)
        /\ fncall.invoked[1].fn = AsPtr(fncall.fn_ptr)
        /\ Len(fncall.invoked[1].args) = Len(fncall.params)
        /\ \A i \in 1..Len(fncall.params) :
              fncall.invoked[1].args[i] = AsPtr(fncall.params[i])
        /\ AsPtr(fncall.ret)
              = Callee(fncall.invoked[1].fn, fncall.invoked[1].args)
        /\ fncall.ret = AsI64(AsPtr(fncall.ret))

\* call_auto_raw has returned from the shape of arity 10 with a negative
\* first parameter and a result that is not 0.
C16_Witness ==
    /\ fncall.op = "call_auto_raw"
    /\ Len(fncall.params) = MaxArity
    /\ fncall.params[1] < 0 /\ fncall.params[2] > 0
    /\ Len(fncall.invoked) = 1
    /\ fncall.ret # 0

\* C17: call_auto_raw and call_auto with more than 10 parameters return 0,
\* enter no function and do not crash; call_auto turns no value into a
\* pointer before it returns.
C17_TooManyParamsReturnsZero ==
    (fncall.op # "none" /\ Len(fncall.params) > MaxArity) =>
        /\ fncall.ret = 0
        /\ fncall.invoked = <<>>
        /\ ~crashed
        /\ fncall.marshaled = 0

\* call_auto has returned 0 for 11 values of which one has no pointer.
C17_Witness ==
    /\ fncall.op = "call_auto"
    /\ Len(fncall.params) = MaxArity + 1
    /\ \E i \in 1..Len(fncall.params) : ~fncall.params[i].int
    /\ fncall.ret = 0
    /\ fncall.invoked = <<>>
    /\ ~crashed

(***************************************************************************)
(* C18 .. C20: startup.                                                    *)
(***************************************************************************)
\* C18: COLLECT_PARAMS_COUNT changes only while the configuration is loaded,
\* before any holder is registered and any hook installed, and every holder
\* entered by an intercepted call collects that many words.
C18_CollectCountFixedAfterConfig ==
    [][/\ COLLECT_PARAMS_COUNT' # COLLECT_PARAMS_COUNT =>
              /\ phase = "boot"
              /\ RUNE_DETOURS = <<>>
              /\ \A id \in HolderIds : ~CALL_ONCE[id]
              /\ ninstalls = 0
       /\ (\E i \in Slots : Installed(RUNE_DETOURS[i])) =>
              COLLECT_PARAMS_COUNT' = COLLECT_PARAMS_COUNT
       /\ (StepOf("call") /\ last'.id \in HolderIds) =>
              Len(last'.args) = COLLECT_PARAMS_COUNT]_vars

\* With the count of config.jsonc in force, a hooked function has been called
\* and its holder has collected that many words.
C18_Witness ==
    /\ COLLECT_PARAMS_COUNT = CfgCollect
    /\ last.op = "call"
    /\ last.id \in HolderIds
    /\ Len(last.args) = CfgCollect
    /\ \E i \in Slots : Installed(RUNE_DETOURS[i])

\* The registry holds one slot per holder, the slot of id i at index i.
RegistryComplete ==
    /\ Len(RUNE_DETOURS) = NumHolders
    /\ \A i \in 1..NumHolders : RUNE_DETOURS[i].detour_id = i - 1

\* C19: when threads run register_all_detours at the same time, no thread
\* crashes or panics, and once all have returned every holder id is
\* registered exactly once.
C19_ConcurrentRegistrationIsExact ==
    /\ ~crashed
    /\ (\A t \in Threads : threads[t].op = "register" /\ threads[t].pc = "done")
          => RegistryComplete

C22_RoutingIsSlotExact ==
    [][/\ (StepOf("install") /\ last'.slot # 0 /\ ~crashed'
               /\ Free(RUNE_DETOURS[last'.slot])) =>
              /\ Installed(RUNE_DETOURS'[last'.slot])
              /\ RUNE_DETOURS'[last'.slot].from_ptr = Some(last'.addr)
              /\ native'[last'.addr]
                    = Some(get_detour_id(RUNE_DETOURS'[last'.slot]))
       /\ (StepOf("call") /\ last'.calls # <<>>) =>
              \E i \in SlotsAt(RUNE_DETOURS, last'.addr) :
                  /\ get_detour_id(RUNE_DETOURS[i]) = last'.id
                  /\ last'.calls[1].fn = RUNE_DETOURS[i].rune_function.v
                  /\ last'.calls[1].opt = RUNE_DETOURS[i].opt_param]_vars

(***************************************************************************)
(* C23 .. C25: the locks.                                                  *)
(***************************************************************************)
\* Thread t is inside call_rune_function_on_id and its next step is
\* rdetour.read() on the slot at position i, which is not the slot of the
\* id it dispatches.
ReadsOtherSlot(t, i) ==
    /\ threads[t].pc = "dfind"
    /\ threads[t].i = i
    /\ i \in Slots
    /\ get_detour_id(RUNE_DETOURS[i]) # threads[t].id

\* C23: slot locks are independent.  A dispatch never has to take the lock
\* of a slot other than its own, so it is never held up by a hook_function
\* or drop_hook call that holds the write lock of another slot.
C23_SlotLocksIndependent ==
    \A t \in Threads, i \in Slots :
        ReadsOtherSlot(t, i) => rdetour_lock[i].w = 0

\* A guard of lock l, shared or exclusive, is alive on thread t.
Holds(l, t) == t \in l.r \/ l.w = t

\* The locks of the pool that thread t holds: 0 for the lock of the
\* registry, i for the lock of the slot at position i.
HeldBy(t) ==
    (IF Holds(rune_detours_lock, t) THEN {0} ELSE {})
        \cup {i \in DOMAIN rdetour_lock : Holds(rdetour_lock[i], t)}

\* C24: while the script callback runs inside dispatch, the dispatching
\* thread holds neither the lock of the registry nor the lock of a slot.
C24_CallbackRunsUnlocked ==
    \A t \in Threads : threads[t].pc = "incb" => HeldBy(t) = {}

\* C25: every hook_function, drop_hook and intercepted call that a thread
\* has started returns to its caller in the end, whatever the other threads
\* do at the same time.
C25_EveryOperationReturns ==
    \A t \in Threads : (threads[t].op # "idle") ~> (threads[t].op = "idle")

(***************************************************************************)
(* C26 .. C30: what remove, install and dispatch leave behind.             *)
(***************************************************************************)
\* C26: when drop_hook returns true, the slot it released holds no
\* rune_function, no opt_param, no from_ptr and no RawDetour.
C26_RemoveClearsSlot ==
    [][(StepOf("remove") /\ last'.ret = RetBool(TRUE)) =>
          LET rd == RUNE_DETOURS'[last'.slot]
          IN /\ ~rd.rune_function.some
             /\ ~rd.opt_param.some
             /\ ~rd.from_ptr.some
             /\ ~rd.detour.some]_vars

\* The threads on which the script callback of the slot at position i is
\* running, be it inside a drop_hook call of its own.
InCallbackOf(i) ==
    {u \in Threads :
        \/ threads[u].pc = "incb" /\ threads[u].at = i
        \/ threads[u].outer # <<>> /\ threads[u].outer[1].at = i}

\* A step of drop_rdetour_at on thread t after its entry.
RemoveStep(t) == RemoveFind(t) \/ RemoveWrite(t) \/ RemoveUnlock(t)

AcquiredAt(dets, a) ==
    {i \in DOMAIN dets :
        is_detour_acquired(dets[i]) /\ dets[i].from_ptr = Some(a)}

\* C28: no slot is lost.  Whatever happened before, drop_hook called alone
\* on the address that an acquired slot records, the primitive disabling the
\* hook, returns one such slot to Free, so that removing every recorded
\* address makes all the slots available again.
C28_AcquiredSlotCanBeFreed ==
    [][(StepOf("remove") /\ last'.disableOk
            /\ AcquiredAt(RUNE_DETOURS, last'.addr) # {})
        => (/\ last'.slot \in AcquiredAt(RUNE_DETOURS, last'.addr)
            /\ Free(RUNE_DETOURS'[last'.slot])
            /\ ~is_detour_acquired(RUNE_DETOURS'[last'.slot]))]_vars

\* C29: an intercepted call reaches the callback.  No thread unhooks an
\* address while its own call of that address is in flight, so every holder
\* entered returns from the script callback and with its result; and a
\* dispatch that comes to a slot while hook_function holds its write lock
\* stays where it is until the lock is dropped.
C29_InterceptedCallRunsCallback ==
    [][\A t \in Threads :
          /\ (threads[t].op = "call"
                  /\ threads[t].pc \in {"dread", "dfind", "dtry", "incb"}
                  /\ threads'[t].pc = "hret")
                 => \E cbres \in CbResults :
                        /\ DispatchCallback(t, cbres)
                        /\ threads'[t].ret = RetWord(CallbackResult(cbres))
          /\ (threads[t].pc = "dfind" /\ threads[t].i \in Slots
                  /\ rdetour_lock[threads[t].i].w # 0)
                 => threads'[t] = threads[t]]_vars

\* The slots that the step changes.
ChangedSlots ==
    {i \in DOMAIN RUNE_DETOURS \cap DOMAIN RUNE_DETOURS' :
        RUNE_DETOURS'[i] # RUNE_DETOURS[i]}

\* The step is the part of hook_function(a, ..) that writes, made alone or
\* on a thread.
InstallWrites(a) ==
    \/ StepOf("install") /\ last'.addr = a
    \/ \E t \in Threads : InstallWrite(t) /\ threads[t].a = a

\* The step is the part of drop_hook(a) that writes, made alone or on a
\* thread.
RemoveWrites(a) ==
    \/ StepOf("remove") /\ last'.addr = a
    \/ \E t \in Threads : RemoveWrite(t) /\ threads[t].a = a

\* C30: once the registry is set up, a step changes at most one slot and
\* never its id or the number of slots; the slot it changes is either one
\* that was Free and that hook_function binds to its address, or one that
\* records the address drop_hook was called with.  Dispatch, intercepted
\* calls and every other step change no slot, and nothing but drop_hook of
\* its own address changes a slot that is Installed.
C30_WriteSetsMinimal ==
    [][phase = "running" =>
          /\ Len(RUNE_DETOURS') = Len(RUNE_DETOURS)
          /\ Cardinality(ChangedSlots) <= 1
          /\ \A i \in ChangedSlots :
                /\ get_detour_id(RUNE_DETOURS'[i]) = get_detour_id(RUNE_DETOURS[i])
                /\ \/ /\ Free(RUNE_DETOURS[i])
                      /\ RUNE_DETOURS'[i].from_ptr.some
                      /\ InstallWrites(RUNE_DETOURS'[i].from_ptr.v)
                   \/ /\ RUNE_DETOURS[i].from_ptr.some
                      /\ RemoveWrites(RUNE_DETOURS[i].from_ptr.v)]_vars

\* Two hooks were installed and drop_hook of the first address has freed its
\* slot, the slot of the second being Installed as before.
C30_Witness ==
    /\ last.op = "remove"
    /\ last.ret = RetBool(TRUE)
    /\ last.slot = 1
    /\ Free(RUNE_DETOURS[1])
    /\ Installed(RUNE_DETOURS[2])
    /\ RUNE_DETOURS[2].from_ptr.v # last.addr
    /\ RUNE_DETOURS[2].rune_function.some
    /\ ~crashed

====
